---- MODULE Spec2Model ----
(***************************************************************************)
(* Frame descriptor tables of the OCaml multicore runtime                  *)
(* (runtime/frame_descriptors.c): the raw tables emitted by ocamlopt, the  *)
(* open-addressing index built over them, the chain of index versions      *)
(* published through current_frametable, and their reclamation driven by   *)
(* caml_major_cycles_completed.                                            *)
(***************************************************************************)
EXTENDS Integers, Sequences, FiniteSets, TLC

(* ------------------------------ bounds -------------------------------- *)

\* largest value of caml_major_cycles_completed the model explores
MaxCycle == 2
\* largest number of caml_register_frametable calls the model explores
MaxRegister == 2
\* largest num_live and num_allocs of the records the parser is run on
MaxLive == 3
MaxAllocs == 4

(* ------------------------- program constants -------------------------- *)

\* the null pointer; also the value of an empty index slot
NULL == 0
\* (uintnat)(-1), at the width the model gives uintnat (16 bits)
No_need_to_free == 65535
\* (unsigned short)-1: the frame_size of a frame without debug info
SentinelFrameSize == 65535
\* the content of memory returned by caml_stat_alloc and not yet written
Uninit == 0 - 1
\* no thread: the value of descr_mutex when it is not held
NoThread == "none"

\* sizeof(uint32_t) and sizeof(void * ) of the 64-bit target
SizeofUint32 == 4
SizeofPtr == 8
\* offsetof(frame_descr, live_ofs): retaddr (8), frame_size (2), num_live (2)
LiveOfsOffset == 12
\* sizeof(unsigned short), the width of one live_ofs entry
SizeofLiveOfs == 2

(* ------------------------------ helpers ------------------------------- *)

Max(a, b) == IF a > b THEN a ELSE b

RECURSIVE BitAnd(_, _)
\* a & b on naturals
BitAnd(a, b) ==
  IF a = 0 \/ b = 0 THEN 0
  ELSE (a % 2) * (b % 2) + 2 * BitAnd(a \div 2, b \div 2)

RECURSIVE SumSeq(_)
SumSeq(s) == IF s = <<>> THEN 0 ELSE Head(s) + SumSeq(Tail(s))

\* Align_to(p, T): p rounded up to a multiple of sizeof(T)
Align_to(p, size) == ((p + size - 1) \div size) * size

\* Hash_retaddr(addr, mask): the return address without its 3 low bits,
\* masked
Hash_retaddr(addr, mask) == BitAnd(addr \div 8, mask)

(* --------------------- raw tables emitted by ocamlopt ----------------- *)

FrameDescr(ra, fs, nl, na) ==
  [retaddr |-> ra, frame_size |-> fs, num_live |-> nl, num_allocs |-> na]

\* The records of each raw table the program links or loads, by table
\* number.  Return addresses are unique over all tables (the code
\* generator's contract).  frame_size bit 0: debug info, bit 1: alloc
\* lengths.
TableRecords ==
  << << FrameDescr(4096, 16, 0, 0),      \* table 1: A, B, C
        FrameDescr(4104, 17, 1, 0),
        FrameDescr(4112, 18, 2, 3) >>,
     << FrameDescr(4128, 19, 1, 2),      \* table 2: collides with 4096
        FrameDescr(4160, SentinelFrameSize, 0, 0) >>,
     << >>,                              \* table 3: no descriptor
     << FrameDescr(4192, 35, 3, 0) >>,   \* table 4: collides with 4128
     << FrameDescr(4224, 32, 1, 0) >> >> \* table 5: collides with 4096

TableIds == 1 .. Len(TableRecords)

\* the address of raw table k (an intnat * ): its count word
TableBase(k) == 8192 * k

HasAllocLengths(r) == (r.frame_size \div 2) % 2 = 1
HasDebugInfo(r) == r.frame_size % 2 = 1 /\ r.frame_size # SentinelFrameSize

\* The address that follows record r emitted at address a: the fields of
\* the binary record format in order, with their padding.
EmittedEnd(a, r) ==
  LET live == a + SizeofPtr + 2 + 2 + 2 * r.num_live
      allocs == IF HasAllocLengths(r) THEN live + 1 + r.num_allocs ELSE live
      ndebug == IF HasAllocLengths(r) THEN r.num_allocs ELSE 1
      debug == IF HasDebugInfo(r)
               THEN Align_to(allocs, 4) + 4 * ndebug
               ELSE allocs
  IN  Align_to(debug, SizeofPtr)

RECURSIVE Emit(_, _, _)
\* the set of <<address, record>> of records i.. of recs, emitted from a
Emit(recs, i, a) ==
  IF i > Len(recs) THEN {}
  ELSE {<<a, recs[i]>>} \cup Emit(recs, i + 1, EmittedEnd(a, recs[i]))

\* every record of every raw table, with its address
Emitted ==
  UNION { Emit(TableRecords[k], 1, TableBase(k) + SizeofPtr) : k \in TableIds }

RecordAddrs == { e[1] : e \in Emitted }

\* what a read of the memory at d that holds no record gives
WildDescr == FrameDescr(0, 0, 0, 0)

\* The frame_size words of the raw tables the parser is run on, one table
\* per flag combination: no alloc lengths and no debug info, alloc lengths
\* only, debug info only, both, and the all-ones sentinel.
ParserFlags == << 16, 18, 17, 19, SentinelFrameSize >>

ParserTableIds == 1 .. Len(ParserFlags)

\* the records of parser table f: every num_live and num_allocs up to the
\* bounds, under the frame_size of the table
ParserRecords(f) ==
  [ i \in 1 .. (MaxLive + 1) * (MaxAllocs + 1) |->
      FrameDescr(4096 + 8 * i, ParserFlags[f],
                 (i - 1) \div (MaxAllocs + 1), (i - 1) % (MaxAllocs + 1)) ]

\* the address of parser table f, away from the tables of the program
ParserBase(f) == 65536 * f

ParserEmitted ==
  UNION { Emit(ParserRecords(f), 1, ParserBase(f) + SizeofPtr) : f \in ParserTableIds }

ParserAddrs == { e[1] : e \in ParserEmitted }

\* the frame_descr at address d
DescrAt(d) ==
  IF d \in RecordAddrs THEN (CHOOSE e \in Emitted : e[1] = d)[2]
  ELSE IF d \in ParserAddrs THEN (CHOOSE e \in ParserEmitted : e[1] = d)[2]
  ELSE WildDescr

\* *tbl: the count word of raw table k
TableCount(k) == Len(TableRecords[k])

\* the addresses of the records of table k, in the table's order
TableDescrAddrs(k) ==
  { e[1] : e \in Emit(TableRecords[k], 1, TableBase(k) + SizeofPtr) }

\* every return address some raw table records
AllRetaddrs == { e[2].retaddr : e \in Emitted }

(* ------------------------------ parser -------------------------------- *)

\* next_frame_descr as it would be without the final alignment to the
\* word size
next_frame_descr_unaligned(d) ==
  LET r == DescrAt(d)
      live_end == d + LiveOfsOffset + SizeofLiveOfs * r.num_live
      has_allocs == BitAnd(r.frame_size, 2) # 0
      num_allocs == IF has_allocs THEN r.num_allocs ELSE 0
      p1 == IF has_allocs THEN live_end + num_allocs + 1 ELSE live_end
  IN  IF BitAnd(r.frame_size, 1) # 0 /\ r.frame_size # SentinelFrameSize
      THEN Align_to(p1, SizeofUint32)
           + SizeofUint32 * (IF has_allocs THEN num_allocs ELSE 1)
      ELSE p1

\* next_frame_descr as it would be without the test of the sentinel
next_frame_descr_no_sentinel(d) ==
  LET r == DescrAt(d)
      live_end == d + LiveOfsOffset + SizeofLiveOfs * r.num_live
      has_allocs == BitAnd(r.frame_size, 2) # 0
      num_allocs == IF has_allocs THEN r.num_allocs ELSE 0
      p1 == IF has_allocs THEN live_end + num_allocs + 1 ELSE live_end
      p2 == IF BitAnd(r.frame_size, 1) # 0
            THEN Align_to(p1, SizeofUint32)
                 + SizeofUint32 * (IF has_allocs THEN num_allocs ELSE 1)
            ELSE p1
  IN  Align_to(p2, SizeofPtr)

\* next_frame_descr(d): the address of the record that follows d
next_frame_descr(d) ==
  LET r == DescrAt(d)
      live_end == d + LiveOfsOffset + SizeofLiveOfs * r.num_live
      has_allocs == BitAnd(r.frame_size, 2) # 0
      num_allocs == IF has_allocs THEN r.num_allocs ELSE 0
      p1 == IF has_allocs THEN live_end + num_allocs + 1 ELSE live_end
      p2 == IF BitAnd(r.frame_size, 1) # 0 /\ r.frame_size # SentinelFrameSize
            THEN Align_to(p1, SizeofUint32)
                 + SizeofUint32 * (IF has_allocs THEN num_allocs ELSE 1)
            ELSE p1
  IN  Align_to(p2, SizeofPtr)

(* --------------------------- index builder ---------------------------- *)

RECURSIVE WalkTable(_, _)
\* the records the fill loop visits in one raw table: len records from d
WalkTable(d, len) ==
  IF len = 0 THEN <<>>
  ELSE <<d>> \o WalkTable(next_frame_descr(d), len - 1)

RECURSIVE WalkChainOldestFirst(_)
\* WalkChain as it would be walking the chain from its tail, the table
\* registered first
WalkChainOldestFirst(chain) ==
  IF chain = <<>> THEN <<>>
  ELSE WalkChainOldestFirst(Tail(chain))
       \o WalkTable(TableBase(Head(chain)) + SizeofPtr, TableCount(Head(chain)))

RECURSIVE WalkChain(_)
\* iter_list(frametables, lnk): the records of every table, from the head
\* of the chain
WalkChain(chain) ==
  IF chain = <<>> THEN <<>>
  ELSE WalkTable(TableBase(Head(chain)) + SizeofPtr, TableCount(Head(chain)))
       \o WalkChain(Tail(chain))

\* CountDescr as it would be counting the tables, not their count words
CountDescrTables(chain) == Len(chain)

\* num_descr: the sum of the count words of the chain
CountDescr(chain) == SumSeq([i \in 1 .. Len(chain) |-> TableCount(chain[i])])

RECURSIVE GrowTblsizeNoDouble(_, _)
\* GrowTblsize as it would be with the factor 2 of the test left out
GrowTblsizeNoDouble(tblsize, num_descr) ==
  IF tblsize < num_descr THEN GrowTblsizeNoDouble(tblsize * 2, num_descr)
  ELSE tblsize

RECURSIVE GrowTblsizeInclusive(_, _)
\* GrowTblsize as it would be with <= for < in the test
GrowTblsizeInclusive(tblsize, num_descr) ==
  IF tblsize <= 2 * num_descr
  THEN GrowTblsizeInclusive(tblsize * 2, num_descr)
  ELSE tblsize

RECURSIVE GrowTblsize(_, _)
\* while (tblsize < 2 * num_descr) tblsize *= 2
GrowTblsize(tblsize, num_descr) ==
  IF tblsize < 2 * num_descr THEN GrowTblsize(tblsize * 2, num_descr)
  ELSE tblsize

\* tblsize of the index built for the chain
Tblsize(chain) == GrowTblsize(4, CountDescr(chain))

\* the slot at which the fill loop starts to probe for record d
FillHash(d, tblsize) == Hash_retaddr(DescrAt(d).retaddr, tblsize - 1)

\* ProbeEmpty as it would be without the probing loop
ProbeEmptyNoLoop(slots, h, mask, fuel) == h

RECURSIVE ProbeEmpty(_, _, _, _)
\* while (table.descriptors[h] != NULL) h = (h+1) & table.mask;
\* -1 when no slot is empty (the loop does not end)
ProbeEmpty(slots, h, mask, fuel) ==
  IF slots[h] = NULL THEN h
  ELSE IF fuel = 0 THEN 0 - 1
  ELSE ProbeEmpty(slots, BitAnd(h + 1, mask), mask, fuel - 1)

RECURSIVE FillSlots(_, _, _, _)
\* the fill loop over records ds[i..]: the slots, or <<>> when a probe
\* does not end
FillSlots(slots, ds, i, mask) ==
  IF i > Len(ds) THEN slots
  ELSE LET h == ProbeEmpty(slots, FillHash(ds[i], mask + 1), mask, mask + 1)
       IN  IF h < 0 THEN <<>>
           ELSE FillSlots([slots EXCEPT ![h] = ds[i]], ds, i + 1, mask)

\* the array as caml_stat_alloc returns it, and after the clearing loop
UninitSlots(tblsize) == [i \in 0 .. tblsize - 1 |-> Uninit]
ClearedSlots(tblsize) == [i \in 0 .. tblsize - 1 |-> NULL]

\* build_frame_descriptors(frametables): the slots of the built index
BuiltSlots(chain) ==
  FillSlots(ClearedSlots(Tblsize(chain)), WalkChain(chain), 1, Tblsize(chain) - 1)

\* the chains of tables a program can register: no table twice
Chains ==
  { chain \in UNION { [1 .. n -> TableIds] : n \in 0 .. Cardinality(TableIds) } :
      \A i, j \in DOMAIN chain : chain[i] = chain[j] => i = j }

\* build_frame_descriptors, computed once for every chain
BuiltTables ==
  { [chain |-> chain, tblsize |-> Tblsize(chain), slots |-> BuiltSlots(chain)] :
      chain \in Chains }

\* build_frame_descriptors(frametables)
build_frame_descriptors(chain) == CHOOSE b \in BuiltTables : b.chain = chain

(* ------------------------------- state -------------------------------- *)

Threads == {"t1", "t2"}
\* the thread that starts the runtime
MainThread == "t1"

VARIABLES
  caml_frametable,     \* the raw tables linked into the program, in order
  loadable,            \* the raw tables the dynamic loader may still register
  lookups,             \* the return addresses the stack walkers ask for
  walk,                \* the walk of one raw table: tbl, j, d and the d before
  frametables,         \* the chain of registered tables, head first
  current_frametable,  \* the published version, or NULL
  descr_mutex,         \* the thread that holds the mutex, or NoThread
  caml_major_cycles_completed,
  versions,            \* the frametable_version nodes allocated so far
  arrays,              \* the descriptors arrays allocated so far
  freed_versions,      \* the nodes passed to caml_stat_free
  freed_arrays,        \* the arrays passed to caml_stat_free
  phase,               \* "boot", "init" (caml_init_frame_descriptors runs), "run"
  nregister,           \* the calls of caml_register_frametable so far
  pc,                  \* where each thread is
  loc,                 \* the local variables of each thread
  created,             \* history: per version, the chain, marker and prev it got
  free_log,            \* history: every caml_stat_free of a node
  bad_reads,           \* history: the reads of freed or unwritten memory
  unsync               \* history: a cycle completed while a thread was not idle

shared == << frametables, current_frametable, descr_mutex,
             caml_major_cycles_completed, versions, arrays,
             freed_versions, freed_arrays >>
inputs == << caml_frametable, loadable, lookups, walk >>
history == << created, free_log, bad_reads, unsync >>
vars == << inputs, shared, phase, nregister, pc, loc, history >>

\* no raw table is being walked
NoWalk == [tbl |-> 0, j |-> 0, d |-> NULL, from |-> NULL]

\* the locals of a thread that runs nothing
NoLocals ==
  [ op |-> "none", arg |-> 0, ft |-> NULL, old |-> NULL,
    table |-> [descriptors |-> NULL, mask |-> 0],
    seen |-> 0, victim |-> NULL, waited |-> FALSE, locked |-> FALSE,
    fds |-> [descriptors |-> NULL, mask |-> 0],
    key |-> 0, h |-> 0, probes |-> 0, found |-> Uninit ]

(* ------------------- reads of the heap, defined or not ---------------- *)

MarkerValues == (0 .. MaxCycle) \cup {No_need_to_free}
VersionPtrs == (DOMAIN versions) \cup {NULL}
TableValues ==
  { [descriptors |-> a, mask |-> Cardinality(DOMAIN arrays[a]) - 1] :
      a \in DOMAIN arrays }
SlotValues == RecordAddrs \cup {NULL}

\* whether a load of a field of node v reads memory of a live node
LiveNode(v) == v \in DOMAIN versions /\ v \notin freed_versions

\* ft->free_prev_after_cycle: the values the load may give
ReadMarker(v) ==
  IF LiveNode(v) /\ versions[v].free_prev_after_cycle # Uninit
  THEN {versions[v].free_prev_after_cycle}
  ELSE MarkerValues

\* ft->prev
ReadPrev(v) ==
  IF LiveNode(v) /\ versions[v].prev # Uninit
  THEN {versions[v].prev}
  ELSE VersionPtrs

\* ft->table
ReadTable(v) ==
  IF LiveNode(v) /\ versions[v].table.descriptors # Uninit
  THEN {versions[v].table}
  ELSE TableValues

\* whether a load of slot h of array a reads a written slot of a live array
LiveSlot(a, h) ==
  /\ a \in DOMAIN arrays
  /\ a \notin freed_arrays
  /\ h \in DOMAIN arrays[a]
  /\ arrays[a][h] # Uninit

\* fds.descriptors[h]
ReadSlot(a, h) == IF LiveSlot(a, h) THEN {arrays[a][h]} ELSE SlotValues

(* ------------------------------- inputs ------------------------------- *)

\* return addresses no raw table records
UnregisteredKeys == {4136, 4256}

\* the program of the concurrent specification: one linked table, three
\* loadable ones
Init ==
  /\ caml_frametable = <<1>>
  /\ loadable = {2, 3, 4}
  /\ lookups = {4128, 4136}
  /\ walk = NoWalk
  /\ frametables = <<>>
  /\ current_frametable = NULL
  /\ descr_mutex = NoThread
  /\ caml_major_cycles_completed = 0
  /\ versions = <<>>
  /\ arrays = <<>>
  /\ freed_versions = {}
  /\ freed_arrays = {}
  /\ phase = "boot"
  /\ nregister = 0
  /\ pc = [t \in Threads |-> "idle"]
  /\ loc = [t \in Threads |-> NoLocals]
  /\ created = <<>>
  /\ free_log = {}
  /\ bad_reads = {}
  /\ unsync = FALSE

\* the next node or array caml_stat_alloc returns
NewVersion == Len(versions) + 1

(* ------------- caml_init_frame_descriptors, caml_register_frametable -- *)

\* RegisterOrder as it would be with the store to current_frametable
\* ahead of the stores to the marker and to prev
RegisterOrderPublishFirst(p) ==
  CASE p = "r_table" -> "r_publish"
    [] p = "r_publish" -> "r_marker"
    [] p = "r_marker" -> "r_prev"
    [] p = "r_prev" -> "r_unlock"

\* the statements of caml_init_frame_descriptors and of
\* caml_register_frametable after build_frame_descriptors, in program
\* order: the place that follows place p
RegisterOrder(p) ==
  CASE p = "r_table" -> "r_marker"
    [] p = "r_marker" -> "r_prev"
    [] p = "r_prev" -> "r_publish"
    [] p = "r_publish" -> "r_unlock"

\* the runtime starts: the main thread calls caml_init_frame_descriptors
CallInit(t) ==
  /\ phase = "boot"
  /\ t = MainThread
  /\ pc[t] = "idle"
  /\ phase' = "init"
  /\ pc' = [pc EXCEPT ![t] = "r_lock"]
  /\ loc' = [loc EXCEPT ![t].op = "init"]
  /\ UNCHANGED << inputs, shared, nregister, history >>

\* a thread calls caml_register_frametable(table k)
CallRegister(t, k) ==
  /\ phase = "run"
  /\ pc[t] = "idle"
  /\ nregister < MaxRegister
  /\ k \in loadable
  /\ loadable' = loadable \ {k}
  /\ nregister' = nregister + 1
  /\ pc' = [pc EXCEPT ![t] = "r_lock"]
  /\ loc' = [loc EXCEPT ![t].op = "register", ![t].arg = k]
  /\ UNCHANGED << caml_frametable, lookups, walk, shared, phase, history >>

\* RegisterLock as it would be with a lock that does not exclude
RegisterLockNotExclusive(t) ==
  /\ pc[t] = "r_lock"
  /\ descr_mutex' = t
  /\ pc' = [pc EXCEPT ![t] = "r_cons"]
  /\ UNCHANGED << inputs, frametables, current_frametable,
                  caml_major_cycles_completed, versions, arrays,
                  freed_versions, freed_arrays, phase, nregister, loc, history >>

\* caml_plat_lock(&descr_mutex) returns once the mutex is free
RegisterLock(t) ==
  /\ pc[t] = "r_lock"
  /\ descr_mutex = NoThread
  /\ descr_mutex' = t
  /\ pc' = [pc EXCEPT ![t] = "r_cons"]
  /\ UNCHANGED << inputs, frametables, current_frametable,
                  caml_major_cycles_completed, versions, arrays,
                  freed_versions, freed_arrays, phase, nregister, loc, history >>

RECURSIVE ConsAll(_, _, _)
\* for (i = 0; caml_frametable[i] != 0; i++) frametables = cons(...)
ConsAll(list, i, chain) ==
  IF i > Len(list) THEN chain
  ELSE ConsAll(list, i + 1, <<list[i]>> \o chain)

\* frametables = cons(table, frametables), for every linked table in init
RegisterCons(t) ==
  /\ pc[t] = "r_cons"
  /\ frametables' =
       IF loc[t].op = "init" THEN ConsAll(caml_frametable, 1, frametables)
       ELSE <<loc[t].arg>> \o frametables
  /\ pc' = [pc EXCEPT ![t] = IF loc[t].op = "init" THEN "r_alloc" ELSE "r_old"]
  /\ UNCHANGED << inputs, current_frametable, descr_mutex,
                  caml_major_cycles_completed, versions, arrays,
                  freed_versions, freed_arrays, phase, nregister, loc, history >>

\* old = atomic_load_acq(&current_frametable)
RegisterOld(t) ==
  /\ pc[t] = "r_old"
  /\ loc' = [loc EXCEPT ![t].old = current_frametable]
  /\ pc' = [pc EXCEPT ![t] = "r_alloc"]
  /\ UNCHANGED << inputs, shared, phase, nregister, history >>

\* ft = caml_stat_alloc(sizeof( *ft)): a node with nothing written
RegisterAlloc(t) ==
  /\ pc[t] = "r_alloc"
  /\ versions' = Append(versions,
       [ table |-> [descriptors |-> Uninit, mask |-> Uninit],
         free_prev_after_cycle |-> Uninit, prev |-> Uninit ])
  /\ created' = Append(created,
       [ chain |-> frametables, epoch |-> Uninit, prev |-> Uninit,
         published |-> FALSE ])
  /\ loc' = [loc EXCEPT ![t].ft = NewVersion]
  /\ pc' = [pc EXCEPT ![t] = "b_alloc"]
  /\ UNCHANGED << inputs, frametables, current_frametable, descr_mutex,
                  caml_major_cycles_completed, arrays, freed_versions,
                  freed_arrays, phase, nregister, free_log, bad_reads, unsync >>

\* BuildAlloc as it would be rebuilding in the array of the current
\* version instead of allocating one
BuildAllocInPlace(t) ==
  /\ pc[t] = "b_alloc"
  /\ IF current_frametable = NULL
     THEN /\ arrays' = Append(arrays,
               UninitSlots(build_frame_descriptors(frametables).tblsize))
          /\ loc' = [loc EXCEPT ![t].table =
               [descriptors |-> Len(arrays) + 1,
                mask |-> build_frame_descriptors(frametables).tblsize - 1]]
     ELSE /\ arrays' = arrays
          /\ loc' = [loc EXCEPT ![t].table =
               [descriptors |-> versions[current_frametable].table.descriptors,
                mask |-> build_frame_descriptors(frametables).tblsize - 1]]
  /\ pc' = [pc EXCEPT ![t] = "b_clear"]
  /\ UNCHANGED << inputs, frametables, current_frametable, descr_mutex,
                  caml_major_cycles_completed, versions, freed_versions,
                  freed_arrays, phase, nregister, history >>

\* build_frame_descriptors: count, tblsize, the allocation of the array
\* and table.mask
BuildAlloc(t) ==
  /\ pc[t] = "b_alloc"
  /\ arrays' = Append(arrays, UninitSlots(build_frame_descriptors(frametables).tblsize))
  /\ loc' = [loc EXCEPT ![t].table =
       [descriptors |-> Len(arrays) + 1, mask |-> build_frame_descriptors(frametables).tblsize - 1]]
  /\ pc' = [pc EXCEPT ![t] = "b_clear"]
  /\ UNCHANGED << inputs, frametables, current_frametable, descr_mutex,
                  caml_major_cycles_completed, versions, freed_versions,
                  freed_arrays, phase, nregister, history >>

\* for (i = 0; i < tblsize; i++) table.descriptors[i] = NULL
BuildClear(t) ==
  /\ pc[t] = "b_clear"
  /\ arrays' = [arrays EXCEPT ![loc[t].table.descriptors] =
       ClearedSlots(loc[t].table.mask + 1)]
  /\ pc' = [pc EXCEPT ![t] = "b_fill"]
  /\ UNCHANGED << inputs, frametables, current_frametable, descr_mutex,
                  caml_major_cycles_completed, versions, freed_versions,
                  freed_arrays, phase, nregister, loc, history >>

\* the fill loop; it does not return when a probe finds no empty slot
BuildFill(t) ==
  /\ pc[t] = "b_fill"
  /\ DOMAIN build_frame_descriptors(frametables).slots # {}
  /\ arrays' = [arrays EXCEPT ![loc[t].table.descriptors] =
       build_frame_descriptors(frametables).slots]
  /\ pc' = [pc EXCEPT ![t] = "r_table"]
  /\ UNCHANGED << inputs, frametables, current_frametable, descr_mutex,
                  caml_major_cycles_completed, versions, freed_versions,
                  freed_arrays, phase, nregister, loc, history >>

\* ft->table = build_frame_descriptors(frametables)
RegisterTable(t) ==
  /\ pc[t] = "r_table"
  /\ versions' = [versions EXCEPT ![loc[t].ft].table = loc[t].table]
  /\ pc' = [pc EXCEPT ![t] = RegisterOrder("r_table")]
  /\ UNCHANGED << inputs, frametables, current_frametable, descr_mutex,
                  caml_major_cycles_completed, arrays, freed_versions,
                  freed_arrays, phase, nregister, loc, history >>

\* atomic_store_rel(&ft->free_prev_after_cycle, ...): No_need_to_free in
\* init, caml_major_cycles_completed in register
RegisterMarker(t) ==
  /\ pc[t] = "r_marker"
  /\ LET m == IF loc[t].op = "init" THEN No_need_to_free
              ELSE caml_major_cycles_completed
     IN  /\ versions' = [versions EXCEPT ![loc[t].ft].free_prev_after_cycle = m]
         /\ created' = [created EXCEPT ![loc[t].ft].epoch = m]
  /\ pc' = [pc EXCEPT ![t] = RegisterOrder("r_marker")]
  /\ UNCHANGED << inputs, frametables, current_frametable, descr_mutex,
                  caml_major_cycles_completed, arrays, freed_versions,
                  freed_arrays, phase, nregister, loc, free_log, bad_reads,
                  unsync >>

\* RegisterPrev as it would be storing ft->prev = 0 in register too
RegisterPrevNull(t) ==
  /\ pc[t] = "r_prev"
  /\ versions' = [versions EXCEPT ![loc[t].ft].prev = NULL]
  /\ created' = [created EXCEPT ![loc[t].ft].prev = NULL]
  /\ pc' = [pc EXCEPT ![t] = RegisterOrder("r_prev")]
  /\ UNCHANGED << inputs, frametables, current_frametable, descr_mutex,
                  caml_major_cycles_completed, arrays, freed_versions,
                  freed_arrays, phase, nregister, loc, free_log, bad_reads,
                  unsync >>

\* ft->prev = 0 in init, ft->prev = old in register
RegisterPrev(t) ==
  /\ pc[t] = "r_prev"
  /\ LET p == IF loc[t].op = "init" THEN NULL ELSE loc[t].old
     IN  /\ versions' = [versions EXCEPT ![loc[t].ft].prev = p]
         /\ created' = [created EXCEPT ![loc[t].ft].prev = p]
  /\ pc' = [pc EXCEPT ![t] = RegisterOrder("r_prev")]
  /\ UNCHANGED << inputs, frametables, current_frametable, descr_mutex,
                  caml_major_cycles_completed, arrays, freed_versions,
                  freed_arrays, phase, nregister, loc, free_log, bad_reads,
                  unsync >>

\* atomic_store_rel(&current_frametable, (uintnat)ft)
RegisterPublish(t) ==
  /\ pc[t] = "r_publish"
  /\ current_frametable' = loc[t].ft
  /\ created' = [created EXCEPT ![loc[t].ft].published = TRUE]
  /\ pc' = [pc EXCEPT ![t] = RegisterOrder("r_publish")]
  /\ UNCHANGED << inputs, frametables, descr_mutex,
                  caml_major_cycles_completed, versions, arrays,
                  freed_versions, freed_arrays, phase, nregister, loc,
                  free_log, bad_reads, unsync >>

\* caml_plat_unlock(&descr_mutex) and the return
RegisterUnlock(t) ==
  /\ pc[t] = "r_unlock"
  /\ descr_mutex' = NoThread
  /\ phase' = "run"
  /\ pc' = [pc EXCEPT ![t] = "idle"]
  /\ loc' = [loc EXCEPT ![t] = NoLocals]
  /\ UNCHANGED << inputs, frametables, current_frametable,
                  caml_major_cycles_completed, versions, arrays,
                  freed_versions, freed_arrays, nregister, history >>

(* ------------------------ caml_get_frame_descrs ----------------------- *)

\* a thread calls caml_get_frame_descrs
CallGet(t) ==
  /\ phase = "run"
  /\ pc[t] = "idle"
  /\ pc' = [pc EXCEPT ![t] = "g_load"]
  /\ loc' = [loc EXCEPT ![t].op = "get"]
  /\ UNCHANGED << inputs, shared, phase, nregister, history >>

\* ft = atomic_load_acq(&current_frametable)
GetLoad(t) ==
  /\ pc[t] = "g_load"
  /\ loc' = [loc EXCEPT ![t].ft = current_frametable]
  /\ pc' = [pc EXCEPT ![t] = "g_check"]
  /\ UNCHANGED << inputs, shared, phase, nregister, history >>

\* EpochPassed as it would be with <= for <
EpochPassedInclusive(m, cycles) == m <= cycles

\* the test of line 171 on marker m and the counter
EpochPassed(m, cycles) == m < cycles

\* if (atomic_load_acq(&ft->free_prev_after_cycle)
\*       < caml_major_cycles_completed)
GetCheck(t) ==
  /\ pc[t] = "g_check"
  /\ \E m \in ReadMarker(loc[t].ft) :
       /\ pc' = [pc EXCEPT ![t] =
            IF EpochPassed(m, caml_major_cycles_completed)
            THEN "g_lock" ELSE "g_return"]
       /\ loc' = [loc EXCEPT ![t].seen = caml_major_cycles_completed]
  /\ bad_reads' = IF LiveNode(loc[t].ft) THEN bad_reads
                  ELSE bad_reads \cup {"marker"}
  /\ UNCHANGED << inputs, shared, phase, nregister, created, free_log, unsync >>

\* GetBlocked as it would be with a try-lock: the call gives up the
\* reclamation when the mutex is held
GetSkipsWhenHeld(t) ==
  /\ pc[t] = "g_lock"
  /\ descr_mutex # NoThread
  /\ pc' = [pc EXCEPT ![t] = "g_return"]
  /\ loc' = loc
  /\ UNCHANGED << inputs, shared, phase, nregister, history >>

\* caml_plat_lock(&descr_mutex) finds the mutex held: the thread waits in it
GetBlocked(t) ==
  /\ pc[t] = "g_lock"
  /\ descr_mutex # NoThread
  /\ pc' = [pc EXCEPT ![t] = "g_wait"]
  /\ loc' = [loc EXCEPT ![t].waited = TRUE]
  /\ UNCHANGED << inputs, shared, phase, nregister, history >>

\* caml_plat_lock(&descr_mutex) returns once the mutex is free
GetLock(t) ==
  /\ pc[t] \in {"g_lock", "g_wait"}
  /\ descr_mutex = NoThread
  /\ descr_mutex' = t
  /\ pc' = [pc EXCEPT ![t] = "g_test"]
  /\ loc' = [loc EXCEPT ![t].locked = TRUE]
  /\ UNCHANGED << inputs, frametables, current_frametable,
                  caml_major_cycles_completed, versions, arrays,
                  freed_versions, freed_arrays, phase, nregister, history >>

\* GetTest as it would be if the frees that follow were of ft, not of
\* ft->prev
GetTestFreesLoaded(t) ==
  /\ pc[t] = "g_test"
  /\ \E p \in ReadPrev(loc[t].ft) :
       /\ pc' = [pc EXCEPT ![t] = IF p # NULL THEN "g_free_arr" ELSE "g_unlock"]
       /\ loc' = [loc EXCEPT ![t].victim = IF p # NULL THEN loc[t].ft ELSE p]
  /\ bad_reads' = IF LiveNode(loc[t].ft) THEN bad_reads
                  ELSE bad_reads \cup {"prev"}
  /\ UNCHANGED << inputs, shared, phase, nregister, created, free_log, unsync >>

\* if (ft->prev != NULL)
GetTest(t) ==
  /\ pc[t] = "g_test"
  /\ \E p \in ReadPrev(loc[t].ft) :
       /\ pc' = [pc EXCEPT ![t] = IF p # NULL THEN "g_free_arr" ELSE "g_unlock"]
       /\ loc' = [loc EXCEPT ![t].victim = p]
  /\ bad_reads' = IF LiveNode(loc[t].ft) THEN bad_reads
                  ELSE bad_reads \cup {"prev"}
  /\ UNCHANGED << inputs, shared, phase, nregister, created, free_log, unsync >>

\* caml_stat_free(ft->prev->table.descriptors)
GetFreeArray(t) ==
  /\ pc[t] = "g_free_arr"
  /\ \E tb \in ReadTable(loc[t].victim) :
       /\ freed_arrays' = freed_arrays \cup {tb.descriptors}
       /\ free_log' = free_log \cup
            { [ kind |-> "array", id |-> tb.descriptors, owner |-> loc[t].ft,
                by |-> t, seen |-> loc[t].seen,
                marker |-> IF loc[t].ft \in DOMAIN versions
                           THEN versions[loc[t].ft].free_prev_after_cycle
                           ELSE Uninit,
                     again |-> tb.descriptors \in freed_arrays ] }
  /\ bad_reads' = IF LiveNode(loc[t].victim) THEN bad_reads
                  ELSE bad_reads \cup {"descriptors"}
  /\ pc' = [pc EXCEPT ![t] = "g_free_node"]
  /\ UNCHANGED << inputs, frametables, current_frametable, descr_mutex,
                  caml_major_cycles_completed, versions, arrays,
                  freed_versions, phase, nregister, loc, created, unsync >>

\* GetFreeNode as it would be without the store ft->prev = NULL
GetFreeNodeKeepsPrev(t) ==
  /\ pc[t] = "g_free_node"
  /\ freed_versions' = freed_versions \cup {loc[t].victim}
  /\ free_log' = free_log \cup
       { [ kind |-> "node", id |-> loc[t].victim, owner |-> loc[t].ft,
           by |-> t, seen |-> loc[t].seen,
           marker |-> IF loc[t].ft \in DOMAIN versions
                      THEN versions[loc[t].ft].free_prev_after_cycle
                      ELSE Uninit,
           again |-> loc[t].victim \in freed_versions ] }
  /\ pc' = [pc EXCEPT ![t] = "g_marker"]
  /\ UNCHANGED << inputs, frametables, current_frametable, descr_mutex,
                  caml_major_cycles_completed, versions, arrays, freed_arrays,
                  phase, nregister, loc, created, bad_reads, unsync >>

\* caml_stat_free(ft->prev); ft->prev = NULL
GetFreeNode(t) ==
  /\ pc[t] = "g_free_node"
  /\ freed_versions' = freed_versions \cup {loc[t].victim}
  /\ free_log' = free_log \cup
       { [ kind |-> "node", id |-> loc[t].victim, owner |-> loc[t].ft,
           by |-> t, seen |-> loc[t].seen,
           marker |-> IF loc[t].ft \in DOMAIN versions
                      THEN versions[loc[t].ft].free_prev_after_cycle
                      ELSE Uninit,
           again |-> loc[t].victim \in freed_versions ] }
  /\ versions' = [versions EXCEPT ![loc[t].ft].prev = NULL]
  /\ pc' = [pc EXCEPT ![t] = "g_marker"]
  /\ UNCHANGED << inputs, frametables, current_frametable, descr_mutex,
                  caml_major_cycles_completed, arrays, freed_arrays, phase,
                  nregister, loc, created, bad_reads, unsync >>

\* GetMarker as it would be without the store of No_need_to_free
GetMarkerSkipped(t) ==
  /\ pc[t] = "g_marker"
  /\ pc' = [pc EXCEPT ![t] = "g_unlock"]
  /\ UNCHANGED << inputs, shared, phase, nregister, loc, history >>

\* atomic_store_rel(&ft->free_prev_after_cycle, No_need_to_free)
GetMarker(t) ==
  /\ pc[t] = "g_marker"
  /\ versions' = [versions EXCEPT
       ![loc[t].ft].free_prev_after_cycle = No_need_to_free]
  /\ pc' = [pc EXCEPT ![t] = "g_unlock"]
  /\ UNCHANGED << inputs, frametables, current_frametable, descr_mutex,
                  caml_major_cycles_completed, arrays, freed_versions,
                  freed_arrays, phase, nregister, loc, history >>

\* caml_plat_unlock(&descr_mutex)
GetUnlock(t) ==
  /\ pc[t] = "g_unlock"
  /\ descr_mutex' = NoThread
  /\ pc' = [pc EXCEPT ![t] = "g_return"]
  /\ UNCHANGED << inputs, frametables, current_frametable,
                  caml_major_cycles_completed, versions, arrays,
                  freed_versions, freed_arrays, phase, nregister, loc, history >>

\* return ft->table: the caller now holds the table by value
GetReturn(t) ==
  /\ pc[t] = "g_return"
  /\ \E tb \in ReadTable(loc[t].ft) :
       loc' = [loc EXCEPT ![t] = [NoLocals EXCEPT !.op = "find", !.fds = tb]]
  /\ bad_reads' = IF LiveNode(loc[t].ft) THEN bad_reads
                  ELSE bad_reads \cup {"table"}
  /\ pc' = [pc EXCEPT ![t] = "hold"]
  /\ UNCHANGED << inputs, shared, phase, nregister, created, free_log, unsync >>

(* ------------------------ caml_find_frame_descr ----------------------- *)

\* the holder of a table calls caml_find_frame_descr(fds, key):
\* h = Hash_retaddr(pc, fds.mask)
CallFind(t, key) ==
  /\ pc[t] = "hold"
  /\ key \in lookups
  /\ loc' = [loc EXCEPT ![t].key = key,
                        ![t].h = Hash_retaddr(key, loc[t].fds.mask),
                        ![t].probes = 0,
                        ![t].found = Uninit]
  /\ pc' = [pc EXCEPT ![t] = "f_probe"]
  /\ UNCHANGED << inputs, shared, phase, nregister, history >>

\* the probes a call counts: the size of the array, then no further
ProbeCap(t) == loc[t].fds.mask + 2

\* one turn of the loop: d = fds.descriptors[h]; return NULL when d == 0,
\* d when d->retaddr == pc; else h = (h+1) & fds.mask
FindProbe(t) ==
  /\ pc[t] = "f_probe"
  /\ \E d \in ReadSlot(loc[t].fds.descriptors, loc[t].h) :
       IF d = NULL \/ DescrAt(d).retaddr = loc[t].key
       THEN /\ loc' = [loc EXCEPT ![t].found = d]
            /\ pc' = [pc EXCEPT ![t] = "hold"]
       ELSE /\ loc' = [loc EXCEPT
                 ![t].h = BitAnd(loc[t].h + 1, loc[t].fds.mask),
                 ![t].probes = IF loc[t].probes < ProbeCap(t)
                               THEN loc[t].probes + 1 ELSE loc[t].probes]
            /\ pc' = pc
  /\ bad_reads' = IF LiveSlot(loc[t].fds.descriptors, loc[t].h) THEN bad_reads
                  ELSE bad_reads \cup {"slot"}
  /\ UNCHANGED << inputs, shared, phase, nregister, created, free_log, unsync >>

\* the holder is done with the table
Drop(t) ==
  /\ pc[t] = "hold"
  /\ pc' = [pc EXCEPT ![t] = "idle"]
  /\ loc' = [loc EXCEPT ![t] = NoLocals]
  /\ UNCHANGED << inputs, shared, phase, nregister, history >>

(* ------------------------- the major collector ------------------------ *)

\* every thread is at a safe point
AllIdle == \A t \in Threads : pc[t] = "idle"

\* a major cycle completes, with every thread stopped at a safe point
MajorCycleCompleted ==
  /\ phase = "run"
  /\ AllIdle
  /\ caml_major_cycles_completed < MaxCycle
  /\ caml_major_cycles_completed' = caml_major_cycles_completed + 1
  /\ UNCHANGED << inputs, frametables, current_frametable, descr_mutex,
                  versions, arrays, freed_versions, freed_arrays, phase,
                  nregister, pc, loc, history >>

\* every thread is at a safe point or walks a stack with a table it holds
AllIdleOrHolding == \A t \in Threads : pc[t] \in {"idle", "hold", "f_probe"}

\* a major cycle completes while a stack walker still holds a table: the
\* collector has not waited for it
MajorCycleCompletedWhileHeld ==
  /\ phase = "run"
  /\ AllIdleOrHolding
  /\ ~AllIdle
  /\ caml_major_cycles_completed < MaxCycle
  /\ caml_major_cycles_completed' = caml_major_cycles_completed + 1
  /\ unsync' = TRUE
  /\ UNCHANGED << inputs, frametables, current_frametable, descr_mutex,
                  versions, arrays, freed_versions, freed_arrays, phase,
                  nregister, pc, loc, created, free_log, bad_reads >>

(* --------------------------- specifications --------------------------- *)

RegisterStep(t) ==
  \/ RegisterLock(t)
  \/ RegisterCons(t)
  \/ RegisterOld(t)
  \/ RegisterAlloc(t)
  \/ BuildAlloc(t)
  \/ BuildClear(t)
  \/ BuildFill(t)
  \/ RegisterTable(t)
  \/ RegisterMarker(t)
  \/ RegisterPrev(t)
  \/ RegisterPublish(t)
  \/ RegisterUnlock(t)

GetStep(t) ==
  \/ GetLoad(t)
  \/ GetCheck(t)
  \/ GetLock(t)
  \/ GetTest(t)
  \/ GetFreeArray(t)
  \/ GetFreeNode(t)
  \/ GetMarker(t)
  \/ GetUnlock(t)
  \/ GetReturn(t)

\* a stack walker asks for one of the return addresses of its stack
Find(t) == \E key \in lookups : CallFind(t, key)

FindStep(t) ==
  \/ Find(t)
  \/ FindProbe(t)
  \/ Drop(t)

\* the dynamic loader registers one of the tables it can load
Register(t) == \E k \in TableIds : CallRegister(t, k)

ThreadStep(t) ==
  \/ CallInit(t)
  \/ Register(t)
  \/ CallGet(t)
  \/ RegisterStep(t)
  \/ GetStep(t)
  \/ FindStep(t)

\* the threads of the program and a collector that completes a cycle only
\* with every thread at a safe point
Next ==
  \/ (\E t \in Threads : ThreadStep(t) \/ GetBlocked(t))
  \/ MajorCycleCompleted

Spec == Init /\ [][Next]_vars

\* the program of the specification below: one linked table, two loadable
\* ones
InitHeld ==
  /\ caml_frametable = <<1>>
  /\ loadable = {2, 4}
  /\ lookups = {4128, 4136}
  /\ walk = NoWalk
  /\ frametables = <<>>
  /\ current_frametable = NULL
  /\ descr_mutex = NoThread
  /\ caml_major_cycles_completed = 0
  /\ versions = <<>>
  /\ arrays = <<>>
  /\ freed_versions = {}
  /\ freed_arrays = {}
  /\ phase = "boot"
  /\ nregister = 0
  /\ pc = [t \in Threads |-> "idle"]
  /\ loc = [t \in Threads |-> NoLocals]
  /\ created = <<>>
  /\ free_log = {}
  /\ bad_reads = {}
  /\ unsync = FALSE

\* the same threads and a collector that completes cycles without
\* waiting for the stack walkers
NextHeld ==
  \/ Next
  \/ MajorCycleCompletedWhileHeld

SpecHeld == InitHeld /\ [][NextHeld]_vars


(* ------------- a collector that does not wait for the callers -------- *)

\* thread t is inside caml_get_frame_descrs
InGet(t) ==
  pc[t] \in { "g_load", "g_check", "g_lock", "g_wait", "g_test", "g_free_arr",
              "g_free_node", "g_marker", "g_unlock", "g_return" }

\* a major cycle completes while a thread is inside caml_get_frame_descrs:
\* the collector has not waited for the call to return
MajorCycleCompletedInGet ==
  /\ phase = "run"
  /\ \E t \in Threads : InGet(t)
  /\ caml_major_cycles_completed < MaxCycle
  /\ caml_major_cycles_completed' = caml_major_cycles_completed + 1
  /\ unsync' = TRUE
  /\ UNCHANGED << inputs, frametables, current_frametable, descr_mutex,
                  versions, arrays, freed_versions, freed_arrays, phase,
                  nregister, pc, loc, created, free_log, bad_reads >>

\* the program of the specification below: one linked table, two loadable
\* ones, no lookup
InitGet ==
  /\ caml_frametable = <<1>>
  /\ loadable = {2, 4}
  /\ lookups = {}
  /\ walk = NoWalk
  /\ frametables = <<>>
  /\ current_frametable = NULL
  /\ descr_mutex = NoThread
  /\ caml_major_cycles_completed = 0
  /\ versions = <<>>
  /\ arrays = <<>>
  /\ freed_versions = {}
  /\ freed_arrays = {}
  /\ phase = "boot"
  /\ nregister = 0
  /\ pc = [t \in Threads |-> "idle"]
  /\ loc = [t \in Threads |-> NoLocals]
  /\ created = <<>>
  /\ free_log = {}
  /\ bad_reads = {}
  /\ unsync = FALSE

\* a thread starts a call, as long as no read of freed memory has
\* happened: after one, the calls under way run on with whatever they read
GetterCall(t) ==
  /\ bad_reads = {}
  /\ (Register(t) \/ CallGet(t))

\* the threads register and call caml_get_frame_descrs, and drop the table
\* they get
GetterStep(t) ==
  \/ CallInit(t)
  \/ GetterCall(t)
  \/ RegisterStep(t)
  \/ GetStep(t)
  \/ GetBlocked(t)
  \/ Drop(t)

NextGet ==
  \/ \E t \in Threads : GetterStep(t)
  \/ MajorCycleCompleted
  \/ MajorCycleCompletedInGet

SpecGet == InitGet /\ [][NextGet]_vars

(* ------------------------ allocation failure -------------------------- *)

\* the places of caml_init_frame_descriptors and caml_register_frametable
\* that call caml_stat_alloc: cons, the version node, the array
AllocPlaces == {"r_cons", "r_alloc", "b_alloc"}

\* AllocFails as it would be if the version node were stored to
\* current_frametable as soon as it is allocated
AllocFailsPublishes(t) ==
  /\ pc[t] \in AllocPlaces
  /\ pc' = [pc EXCEPT ![t] = "failed"]
  /\ current_frametable' =
       IF loc[t].ft # NULL THEN loc[t].ft ELSE current_frametable
  /\ UNCHANGED << inputs, frametables, descr_mutex,
                  caml_major_cycles_completed, versions, arrays,
                  freed_versions, freed_arrays, phase, nregister, loc, history >>

\* caml_stat_alloc fails: the failure is fatal, the call never returns and
\* the caller runs no further statement of its operation; the process is
\* going down, the other threads may still run until it has
AllocFails(t) ==
  /\ pc[t] \in AllocPlaces
  /\ pc' = [pc EXCEPT ![t] = "failed"]
  /\ UNCHANGED << inputs, shared, phase, nregister, loc, history >>

\* the threads, the collector, and an allocator that may fail
NextAlloc ==
  \/ Next
  \/ \E t \in Threads : AllocFails(t)

SpecAlloc == Init /\ [][NextAlloc]_vars

(* --------------------- the walk of one raw table ---------------------- *)

\* tbl = lnk->frametable; len = *tbl; d = (frame_descr * )(tbl + 1); j = 0:
\* the fill loop enters one of the parser tables
InitParser ==
  /\ walk \in { [tbl |-> f, j |-> 0, d |-> ParserBase(f) + SizeofPtr, from |-> NULL] :
                  f \in ParserTableIds }
  /\ caml_frametable = <<>>
  /\ loadable = {}
  /\ lookups = {}
  /\ frametables = <<>>
  /\ current_frametable = NULL
  /\ descr_mutex = NoThread
  /\ caml_major_cycles_completed = 0
  /\ versions = <<>>
  /\ arrays = <<>>
  /\ freed_versions = {}
  /\ freed_arrays = {}
  /\ phase = "boot"
  /\ nregister = 0
  /\ pc = [t \in Threads |-> "idle"]
  /\ loc = [t \in Threads |-> NoLocals]
  /\ created = <<>>
  /\ free_log = {}
  /\ bad_reads = {}
  /\ unsync = FALSE

\* one turn of for (j = 0; j < len; j++) { ...; d = next_frame_descr(d); }
WalkNext ==
  /\ walk.tbl # 0
  /\ walk.j < Len(ParserRecords(walk.tbl))
  /\ walk' = [walk EXCEPT !.j = walk.j + 1,
                          !.d = next_frame_descr(walk.d),
                          !.from = walk.d]
  /\ UNCHANGED << caml_frametable, loadable, lookups, shared, phase,
                  nregister, pc, loc, history >>

NextParser == WalkNext

SpecParser == InitParser /\ [][NextParser]_vars

(* ------------- one thread, every linked and loaded table -------------- *)

\* the lists of linked tables the sequential specification starts from
LinkedLists == { <<>>, <<3>>, <<1>>, <<2>>, <<1, 2>>, <<2, 1>>, <<4, 5>> }

SeqRange(s) == { s[i] : i \in 1 .. Len(s) }

InitIndex ==
  /\ caml_frametable \in LinkedLists
  /\ loadable = TableIds \ SeqRange(caml_frametable)
  /\ lookups = AllRetaddrs \cup UnregisteredKeys
  /\ walk = NoWalk
  /\ frametables = <<>>
  /\ current_frametable = NULL
  /\ descr_mutex = NoThread
  /\ caml_major_cycles_completed = 0
  /\ versions = <<>>
  /\ arrays = <<>>
  /\ freed_versions = {}
  /\ freed_arrays = {}
  /\ phase = "boot"
  /\ nregister = 0
  /\ pc = [t \in Threads |-> "idle"]
  /\ loc = [t \in Threads |-> NoLocals]
  /\ created = <<>>
  /\ free_log = {}
  /\ bad_reads = {}
  /\ unsync = FALSE

\* the main thread alone runs the program
NextIndex ==
  \/ ThreadStep(MainThread)
  \/ MajorCycleCompleted

SpecIndex == InitIndex /\ [][NextIndex]_vars

\* the thread runs, keeps calling caml_get_frame_descrs and gives back
\* the tables it holds, and the collector keeps completing cycles
Fairness ==
  /\ WF_vars(RegisterStep(MainThread))
  /\ WF_vars(GetStep(MainThread))
  /\ WF_vars(FindProbe(MainThread))
  /\ SF_vars(Drop(MainThread))
  /\ SF_vars(CallGet(MainThread))
  /\ SF_vars(MajorCycleCompleted)

\* the program of Init run by the main thread alone, under fairness
SpecFair == Init /\ [][NextIndex]_vars /\ Fairness

(* ------------------------ what the claims use ------------------------- *)

\* the records (addresses) of the raw tables of a chain
ChainRecords(chain) == UNION { TableDescrAddrs(k) : k \in SeqRange(chain) }

\* the occupied slots of array a
Occupied(a) == { h \in DOMAIN arrays[a] : arrays[a][h] \notin {NULL, Uninit} }

ArraySize(a) == Cardinality(DOMAIN arrays[a])

\* the versions whose index build_frame_descriptors has returned
BuiltVersions ==
  { v \in DOMAIN versions : versions[v].table.descriptors # Uninit }

\* a thread holds the result of a lookup
Looked(t) == pc[t] = "hold" /\ loc[t].found # Uninit

\* the version whose table thread t holds
HeldVersion(t) ==
  CHOOSE v \in BuiltVersions :
    versions[v].table.descriptors = loc[t].fds.descriptors

Pow2s == { 2 ^ i : i \in 0 .. 8 }

\* the number of records of the raw tables of a chain
NumRecords(chain) == Cardinality(ChainRecords(chain))

(* ------------------------------ claims -------------------------------- *)

\* C1: a completed lookup of the return address of a record of a table
\* registered so far, in the table caml_get_frame_descrs returned, gives
\* the address of that very record, whatever was registered before or
\* after its table.
C1_LookupReturnsRecord ==
  \A t \in Threads :
    Looked(t) =>
      /\ HeldVersion(t) = current_frametable
      /\ created[HeldVersion(t)].chain = frametables
      /\ \A d \in ChainRecords(frametables) :
           DescrAt(d).retaddr = loc[t].key => loc[t].found = d

\* C1 happens: a record of a table registered between two others is found
\* after a probe past a colliding record.
C1_Witness ==
  \E t \in Threads :
    /\ Looked(t)
    /\ Len(frametables) >= 3
    /\ loc[t].found \in TableDescrAddrs(frametables[2])
    /\ loc[t].probes > 0

\* C2: the index of the current version has one occupied slot per record
\* of the registered tables, each record once, and no other entry.
C2_OneSlotPerRecord ==
  current_frametable # NULL =>
    LET v == current_frametable
        a == versions[v].table.descriptors
        recs == ChainRecords(created[v].chain)
    IN  /\ descr_mutex = NoThread => created[v].chain = frametables
        /\ Cardinality(Occupied(a)) = SumSeq(
             [i \in 1 .. Len(created[v].chain) |->
                Len(TableRecords[created[v].chain[i]])])
        /\ \A d \in recs :
             Cardinality({ h \in DOMAIN arrays[a] : arrays[a][h] = d }) = 1
        /\ \A h \in Occupied(a) : arrays[a][h] \in recs

\* C2 happens: the current index covers three tables and holds a record
\* away from its home slot.
C2_Witness ==
  /\ current_frametable # NULL
  /\ Len(created[current_frametable].chain) >= 3
  /\ LET tb == versions[current_frametable].table
     IN  \E h \in Occupied(tb.descriptors) :
           Hash_retaddr(DescrAt(arrays[tb.descriptors][h]).retaddr, tb.mask) # h

\* C8: every built index keeps an empty slot, a lookup passes occupied
\* slots only (so it ends within the size of the index), and the lookup
\* of a return address that was never registered returns NULL.
C8_FindTerminates ==
  /\ \A v \in BuiltVersions :
       \E h \in DOMAIN arrays[versions[v].table.descriptors] :
         arrays[versions[v].table.descriptors][h] = NULL
  /\ \A t \in Threads :
       pc[t] = "f_probe" =>
         loc[t].probes <= Cardinality(Occupied(loc[t].fds.descriptors))
  /\ \A t \in Threads :
       (/\ Looked(t)
        /\ \A d \in ChainRecords(created[HeldVersion(t)].chain) :
             DescrAt(d).retaddr # loc[t].key)
       => loc[t].found = NULL

\* C8 happens: the lookup of an address of no table has passed two
\* occupied slots and returned NULL.
C8_Witness ==
  \E t \in Threads :
    /\ Looked(t)
    /\ loc[t].key \in UnregisteredKeys
    /\ loc[t].probes >= 2
    /\ loc[t].found = NULL

\* C9: after any build the index has at most tblsize / 2 occupied slots.
C9_LoadFactor ==
  \A a \in DOMAIN arrays : Cardinality(Occupied(a)) <= ArraySize(a) \div 2

\* C9 happens: a built index of 8 slots or more is exactly half full.
C9_Witness ==
  \E v \in BuiltVersions :
    /\ ArraySize(versions[v].table.descriptors) >= 8
    /\ 2 * Cardinality(Occupied(versions[v].table.descriptors))
         = ArraySize(versions[v].table.descriptors)

\* C10: the index built for n records has the smallest power of two that
\* is >= 2n and >= 4 as its size, and size - 1 as its mask.
C10_TableSize ==
  \A v \in BuiltVersions :
    LET n == NumRecords(created[v].chain)
        size == ArraySize(versions[v].table.descriptors)
    IN  /\ size \in Pow2s
        /\ size >= 2 * n
        /\ size >= 4
        /\ \A q \in Pow2s : (q >= 2 * n /\ q >= 4) => size <= q
        /\ versions[v].table.mask = size - 1

\* C10 happens: an index for 0 records has 4 slots, one for 3 records 8,
\* and one for more than 4 records 16.
C10_Witness ==
  /\ \E v \in BuiltVersions :
       /\ NumRecords(created[v].chain) = 0
       /\ ArraySize(versions[v].table.descriptors) = 4
  /\ \E v \in BuiltVersions :
       /\ NumRecords(created[v].chain) = 3
       /\ ArraySize(versions[v].table.descriptors) = 8
  /\ \E v \in BuiltVersions :
       /\ NumRecords(created[v].chain) > 4
       /\ ArraySize(versions[v].table.descriptors) = 16

\* the entries of free_log for version nodes
NodeFrees == { e \in free_log : e.kind = "node" }

\* version v is complete: its index is built from the chain of its
\* creation, its mask, marker and prev are written
FullyBuilt(v) ==
  /\ v \in BuiltVersions
  /\ LET tb == versions[v].table
     IN  /\ tb.mask = ArraySize(tb.descriptors) - 1
         /\ \A h \in DOMAIN arrays[tb.descriptors] :
              arrays[tb.descriptors][h] # Uninit
         /\ Occupied(tb.descriptors)
              = { h \in DOMAIN arrays[tb.descriptors] :
                    arrays[tb.descriptors][h] \in ChainRecords(created[v].chain) }
         /\ Cardinality(Occupied(tb.descriptors)) = NumRecords(created[v].chain)
  /\ versions[v].prev # Uninit
  /\ versions[v].free_prev_after_cycle # Uninit

\* thread t runs caml_get_frame_descrs past its load of current_frametable
Loaded(t) ==
  pc[t] \in { "g_check", "g_lock", "g_wait", "g_test", "g_free_arr",
              "g_free_node", "g_marker", "g_unlock", "g_return" }

\* thread t holds a table caml_get_frame_descrs returned
Holds(t) == pc[t] \in {"hold", "f_probe"}

\* C3, as claimed: a reader never runs a lookup on a descriptors array
\* that has been freed, whatever the registrations, the advances of the
\* counter and the reclamations of the other threads.
C3_ReaderNeverOnFreedArray ==
  \A t \in Threads : Holds(t) => loc[t].fds.descriptors \notin freed_arrays

\* C3, amended: as long as every major cycle has completed with all
\* threads at a safe point (outside register, get and find), no reader
\* holds or reads a freed descriptors array.
C3_ReaderSafeWhenSynchronised ==
  ~unsync =>
    /\ \A t \in Threads : Holds(t) => loc[t].fds.descriptors \notin freed_arrays
    /\ "slot" \notin bad_reads

\* C3 happens: a reader probes the table of a version that a later
\* registration has replaced, after another thread has reclaimed an
\* older version, with every cycle completed at a safe point.
C3_Witness ==
  \E t \in Threads :
    /\ pc[t] = "f_probe"
    /\ ~unsync
    /\ HeldVersion(t) # current_frametable
    /\ \E e \in NodeFrees : e.by # t

\* C4: every free of a version node frees the predecessor of a version
\* whose marker is the epoch recorded at its creation, not
\* No_need_to_free, and strictly below the counter the freeing caller
\* had read.
C4_FreeOnlyAfterEpoch ==
  \A e \in NodeFrees :
    /\ e.id = created[e.owner].prev
    /\ e.marker = created[e.owner].epoch
    /\ e.marker # No_need_to_free
    /\ e.seen > e.marker

\* C4 happens: a predecessor has been freed, and a caller that read a
\* counter equal to the marker of a version with a predecessor returns
\* without having taken the mutex.
C4_Witness ==
  /\ NodeFrees # {}
  /\ \E t \in Threads :
       /\ pc[t] = "g_return"
       /\ ~loc[t].locked
       /\ versions[loc[t].ft].prev # NULL
       /\ versions[loc[t].ft].free_prev_after_cycle = loc[t].seen

\* C5: the version a reader loaded from current_frametable, and the
\* published version, are complete; and a thread that has stored its
\* new version to current_frametable has only the unlock left.
C5_NoPartialVersionVisible ==
  /\ current_frametable # NULL => FullyBuilt(current_frametable)
  /\ \A t \in Threads : Loaded(t) => FullyBuilt(loc[t].ft)
  /\ \A t \in Threads :
       (/\ loc[t].op \in {"init", "register"}
        /\ loc[t].ft # NULL
        /\ created[loc[t].ft].published)
       => pc[t] = "r_unlock"

\* C5 happens: a reader has loaded the version another thread has just
\* published and not yet unlocked.
C5_Witness ==
  \E t, u \in Threads :
    /\ pc[u] = "r_unlock"
    /\ loc[u].op = "register"
    /\ pc[t] = "g_check"
    /\ loc[t].ft = loc[u].ft

\* the versions the model can allocate
VersionIds == 1 .. (MaxRegister + 1)

\* version v has been replaced by a later registration, and the counter
\* has passed the epoch its successor recorded
Reclaimable(v) ==
  \E w \in DOMAIN created :
    /\ created[w].published
    /\ created[w].prev = v
    /\ created[w].epoch < caml_major_cycles_completed

\* version v and its index have been freed
Reclaimed(v) ==
  /\ v \in freed_versions
  /\ versions[v].table.descriptors \in freed_arrays

\* the program has registered its last table and the counter has passed
\* every recorded epoch
EpochsPassed ==
  /\ Len(created) = MaxRegister + 1
  /\ \A w \in DOMAIN created :
       /\ created[w].published
       /\ \/ created[w].epoch = No_need_to_free
          \/ created[w].epoch < caml_major_cycles_completed

\* C6, as claimed: every replaced version is eventually freed, node and
\* index, once the counter has passed the epoch its successor recorded;
\* stated for the versions replaced by the time the counter has passed
\* every epoch, whatever the number of registrations before the first
\* reclamation.
C6_SupersededEventuallyFreed ==
  \A v \in VersionIds : (Reclaimable(v) /\ EpochsPassed) ~> Reclaimed(v)

FoundPrevCleared(t) ==
  /\ pc[t] = "g_unlock"
  /\ loc[t].victim = NULL

\* C11: no node and no array is passed to caml_stat_free twice; the
\* predecessor of a version is freed by one caller only; and a caller that
\* passed the epoch test and then finds prev cleared under the mutex has
\* freed nothing for that version, another caller has.
C11_FreedOnce ==
  /\ \A e \in free_log : ~e.again
  /\ \A e, f \in free_log :
       (e.kind = f.kind /\ (e.owner = f.owner \/ e.id = f.id)) => e = f
  /\ \A t \in Threads :
       FoundPrevCleared(t) =>
         /\ \A e \in free_log : ~(e.by = t /\ e.owner = loc[t].ft)
         /\ \E e \in NodeFrees : e.by # t /\ e.owner = loc[t].ft
         /\ \E e \in free_log :
              e.kind = "array" /\ e.by # t /\ e.owner = loc[t].ft

\* C11 happens: two callers passed the epoch test on the same version; one
\* has freed its predecessor, the other has waited for the mutex and found
\* prev cleared.
C11_Witness ==
  \E t \in Threads :
    /\ FoundPrevCleared(t)
    /\ loc[t].waited
    /\ \E e \in NodeFrees : e.by # t /\ e.owner = loc[t].ft /\ e.seen = loc[t].seen

(* ------------------------- descr_mutex ------------------------------- *)

\* thread t is between a caml_plat_lock(&descr_mutex) and its unlock
InCritical(t) ==
  pc[t] \in { "r_cons", "r_old", "r_alloc", "b_alloc", "b_clear", "b_fill",
              "r_table", "r_marker", "r_prev", "r_publish", "r_unlock",
              "g_test", "g_free_arr", "g_free_node", "g_marker", "g_unlock" }

\* the step changes the chain, the current version, or the prev link or
\* the marker of a version that exists before and after it
SharedMutation ==
  \/ frametables' # frametables
  \/ current_frametable' # current_frametable
  \/ \E v \in DOMAIN versions :
       \/ versions'[v].prev # versions[v].prev
       \/ versions'[v].free_prev_after_cycle # versions[v].free_prev_after_cycle

\* the step is one of thread t, which holds the mutex before and after it
StepOfHolder(t) ==
  /\ descr_mutex = t
  /\ descr_mutex' = t
  /\ pc'[t] # pc[t]
  /\ \A u \in Threads \ {t} : pc'[u] = pc[u] /\ loc'[u] = loc[u]

\* C12: the threads inside a critical section are the holder of
\* descr_mutex, one at most, and every step that changes frametables,
\* current_frametable, or the prev link or the marker of a version is a
\* step of the thread that holds descr_mutex.
C12_MutationsUnderMutex ==
  /\ [](\A t \in Threads : InCritical(t) <=> descr_mutex = t)
  /\ [][SharedMutation => \E t \in Threads : StepOfHolder(t)]_vars

\* C12 happens: after a reclamation has freed a version, a register call
\* is about to publish its version while the other thread waits for the
\* mutex, in a register call or in a reclamation.
C12_Witness ==
  \E t, u \in Threads :
    /\ pc[t] = "r_publish"
    /\ loc[t].op = "register"
    /\ pc[u] \in {"r_lock", "g_wait"}
    /\ freed_versions # {}

(* --------------------- published indexes are frozen ------------------- *)

\* the versions published and not freed
LiveVersions ==
  { v \in DOMAIN created : created[v].published /\ v \notin freed_versions }

\* C13: a step leaves the table field (array and mask) of every published,
\* unfreed version and every slot of its array as they were; and no two
\* versions share an array.
C13_PublishedIndexFrozen ==
  /\ [](\A v, w \in BuiltVersions :
         versions[v].table.descriptors = versions[w].table.descriptors => v = w)
  /\ [][\A v \in LiveVersions :
         /\ versions'[v].table = versions[v].table
         /\ arrays'[versions[v].table.descriptors]
              = arrays[versions[v].table.descriptors]]_vars

\* C13 happens: a register call has built a fresh index while a reader
\* probes the index of the version that is still current.
C13_Witness ==
  \E t, u \in Threads :
    /\ pc[u] = "r_table"
    /\ loc[u].op = "register"
    /\ pc[t] = "f_probe"
    /\ loc[t].fds = versions[current_frametable].table
    /\ loc[t].fds.descriptors # loc[u].table.descriptors
    /\ Occupied(loc[u].table.descriptors) # {}

(* ------------------------ allocation failure -------------------------- *)

\* the versions stored to current_frametable so far
Published == { v \in DOMAIN created : created[v].published }

\* thread t ran into an allocation failure
Failed(t) == pc[t] = "failed"

\* C14: after an allocation failure in init or register, at the link, the
\* node or the array, current_frametable is what it was when the
\* operation started (NULL in init, the version register found as old or
\* would have found), the node of the failed operation is published
\* nowhere, and every version or table a reader has obtained is complete.
C14_FailurePublishesNothing ==
  /\ \A t \in Threads :
       Failed(t) =>
         /\ descr_mutex = t => current_frametable =
              (IF Published = {} THEN NULL
               ELSE CHOOSE v \in Published : \A w \in Published : w <= v)
         /\ loc[t].op = "init" => current_frametable = NULL
         /\ (loc[t].op = "register" /\ loc[t].old # NULL)
              => current_frametable = loc[t].old
         /\ loc[t].ft # NULL =>
              /\ loc[t].ft \notin Published
              /\ current_frametable # loc[t].ft
              /\ \A v \in DOMAIN versions : versions[v].prev # loc[t].ft
  /\ (\E t \in Threads : Failed(t)) =>
       /\ current_frametable # NULL => FullyBuilt(current_frametable)
       /\ \A u \in Threads : Loaded(u) => FullyBuilt(loc[u].ft)
       /\ \A u \in Threads :
            Holds(u) => \E v \in Published :
                          FullyBuilt(v) /\ loc[u].fds = versions[v].table

\* C14 happens: the allocation of the array failed in a register call
\* that had linked its table and allocated its node, and the other
\* thread holds the table of the version that is still current.
C14_Witness ==
  \E t, u \in Threads :
    /\ Failed(t)
    /\ loc[t].op = "register"
    /\ loc[t].ft # NULL
    /\ Head(frametables) = loc[t].arg
    /\ pc[u] = "hold"
    /\ loc[u].fds = versions[current_frametable].table

(* ------------------------------ parser -------------------------------- *)

\* the address at which record i of parser table f was emitted
ParserRecordAddr(f, i) ==
  (CHOOSE e \in ParserEmitted : e[2] = ParserRecords(f)[i])[1]

\* the address that follows record j of parser table f: that of record
\* j + 1, or the end of the table
ParserAddrAfter(f, j) ==
  IF j < Len(ParserRecords(f)) THEN ParserRecordAddr(f, j + 1)
  ELSE EmittedEnd(ParserRecordAddr(f, j), ParserRecords(f)[j])

\* the documented address of the record after record r at address d
DocumentedNext(d, r) ==
  LET live_end == d + LiveOfsOffset + SizeofLiveOfs * r.num_live
      bit0 == r.frame_size % 2 = 1
      bit1 == (r.frame_size \div 2) % 2 = 1
      after_allocs == IF bit1 THEN live_end + 1 + r.num_allocs ELSE live_end
      after_debug ==
        IF bit0 /\ r.frame_size # SentinelFrameSize
        THEN Align_to(after_allocs, 4) + (IF bit1 THEN 4 * r.num_allocs ELSE 4)
        ELSE after_allocs
  IN  Align_to(after_debug, SizeofPtr)

\* C15: in the walk of a table of any flag combination, the address
\* next_frame_descr returned for the record at walk.from is the documented
\* one, and it is the address at which the next record of the table (or
\* the end of the table) was emitted.
C15_NextRecordAddress ==
  (walk.tbl # 0 /\ walk.j > 0) =>
    /\ walk.from \in ParserAddrs
    /\ DescrAt(walk.from) = ParserRecords(walk.tbl)[walk.j]
    /\ walk.d = DocumentedNext(walk.from, DescrAt(walk.from))
    /\ walk.d = ParserAddrAfter(walk.tbl, walk.j)

\* C15 happens: the parser has stepped over a record with alloc lengths
\* and debug info that needs padding at both alignments (12 + 2 live + 3
\* alloc bytes, 3 bytes of padding, 2 debug words, 4 bytes of padding).
C15_Witness ==
  /\ walk.j > 0
  /\ DescrAt(walk.from).frame_size = 19
  /\ DescrAt(walk.from).num_live = 1
  /\ DescrAt(walk.from).num_allocs = 2
  /\ walk.d - walk.from = 32

(* ------------------- one version per registration --------------------- *)

\* the threads inside caml_register_frametable that have not yet stored
\* their version to current_frametable
Registering ==
  { t \in Threads : /\ loc[t].op = "register"
                    /\ pc[t] \notin {"idle", "r_unlock", "failed"} }

\* C16: the store to current_frametable stores the node allocated last,
\* whose prev is the version that was current (NULL in init) and whose
\* marker is the counter (No_need_to_free in init); the versions published
\* are one for init and one for every register call that has reached its
\* store, each with the version published before it as prev.
C16_OneVersionPerRegister ==
  /\ [](/\ (phase = "run" =>
              Cardinality(Published) + Cardinality(Registering) = nregister + 1)
        /\ \A v \in Published :
             /\ v = 1 => /\ created[v].prev = NULL
                         /\ created[v].epoch = No_need_to_free
             /\ v > 1 => /\ created[v].prev = v - 1
                         /\ created[v].epoch <= caml_major_cycles_completed
        /\ (descr_mutex = NoThread /\ phase = "run") =>
             /\ current_frametable = Len(versions)
             /\ current_frametable \in Published)
  /\ [][current_frametable' # current_frametable =>
          /\ current_frametable' = Len(versions)
          /\ current_frametable' = current_frametable + 1
          /\ versions[current_frametable'].prev = current_frametable
          /\ versions[current_frametable'].free_prev_after_cycle =
               (IF current_frametable = NULL THEN No_need_to_free
                ELSE caml_major_cycles_completed)]_vars

\* C16 happens: a second register call has published version 3 with prev
\* version 2 and the epoch 1, after a first one that recorded the epoch 0.
C16_Witness ==
  \E t \in Threads :
    /\ pc[t] = "r_unlock"
    /\ loc[t].op = "register"
    /\ current_frametable = 3
    /\ created[3].prev = 2
    /\ created[3].epoch = 1
    /\ created[2].epoch = 0

(* -------------------------- insertion order --------------------------- *)

\* the raw table that holds record d
TableOf(d) == CHOOSE k \in TableIds : d \in TableDescrAddrs(k)

\* the place of table k in the chain, 1 for the head
ChainPos(chain, k) == CHOOSE i \in 1 .. Len(chain) : chain[i] = k

\* table k1 was registered before table k2: cons puts every table in
\* front of the tables registered before it
RegisteredBefore(chain, k1, k2) == ChainPos(chain, k1) > ChainPos(chain, k2)

\* the slot at which the probing for record d starts in the index of v
Home(v, d) == Hash_retaddr(DescrAt(d).retaddr, versions[v].table.mask)

\* the number of slots from the home slot of d to the slot that holds d
Displacement(v, d) ==
  LET a == versions[v].table.descriptors
      h == CHOOSE i \in DOMAIN arrays[a] : arrays[a][i] = d
  IN  (h + ArraySize(a) - Home(v, d)) % ArraySize(a)

\* the pairs of records of different tables of the chain of v that have
\* the same home slot, the first of a table registered before the
\* second's
CollidingPairs(v) ==
  { p \in ChainRecords(created[v].chain) \X ChainRecords(created[v].chain) :
      /\ TableOf(p[1]) # TableOf(p[2])
      /\ Home(v, p[1]) = Home(v, p[2])
      /\ RegisteredBefore(created[v].chain, TableOf(p[1]), TableOf(p[2])) }

\* the versions stored to current_frametable by a call that has not yet
\* unlocked
JustPublished ==
  { loc[t].ft : t \in { u \in Threads : pc[u] = "r_unlock" } }

\* C17, as claimed: in the index of a version just published, of two records
\* of different tables with the same home slot, the record of the table registered first was inserted
\* first: it is the nearer to the home slot, and the later one is not in
\* the home slot.
C17_EarlierTableAtHome ==
  \A v \in JustPublished :
    \A p \in CollidingPairs(v) :
      /\ Displacement(v, p[1]) < Displacement(v, p[2])
      /\ Displacement(v, p[2]) # 0

\* C17, amended: for the index of a version just published the tables
\* are walked from the head of the chain, the table registered last
\* first, and each table in record order; of two records of different
\* tables with the same home slot the record of the table registered last
\* is the nearer to the home slot and the other is not in the home slot;
\* of two such records of one table the first in the table is the nearer.
C17_LaterTableAtHome ==
  \A v \in JustPublished :
    /\ \A p \in CollidingPairs(v) :
         /\ Displacement(v, p[2]) < Displacement(v, p[1])
         /\ Displacement(v, p[1]) # 0
    /\ \A d, e \in ChainRecords(created[v].chain) :
         (/\ TableOf(d) = TableOf(e)
          /\ d < e
          /\ Home(v, d) = Home(v, e))
         => Displacement(v, d) < Displacement(v, e)

\* C17 happens: in the index of a version just published a record of a loaded table sits in
\* the home slot it shares with a record of a table registered before,
\* which is displaced.
C17_Witness ==
  \E v \in JustPublished :
    \E p \in CollidingPairs(v) :
      /\ Displacement(v, p[2]) = 0
      /\ Displacement(v, p[1]) > 0
      /\ TableOf(p[1]) \in SeqRange(caml_frametable)
      /\ TableOf(p[2]) \notin SeqRange(caml_frametable)

(* ------------------------ the current version ------------------------- *)

\* the version published last
Newest == CHOOSE v \in Published : \A w \in Published : w <= v

\* version v has been replaced: a published version has it as the prev
\* it was created with
Superseded(v) == \E w \in Published : created[w].prev = v

FreedNodeReads == bad_reads \cap {"marker", "prev", "table"}

UnfreedVersions == DOMAIN versions \ freed_versions

\* C20: while descr_mutex is not held, every unfreed version has prev
\* NULL exactly when its marker is No_need_to_free; and a store to the
\* marker of a version is the first one, at its creation, or changes a
\* recorded cycle count to No_need_to_free.
C20_PrevAndMarkerAgree ==
  /\ [](descr_mutex = NoThread =>
          \A v \in UnfreedVersions :
            /\ versions[v].prev # Uninit
            /\ versions[v].free_prev_after_cycle # Uninit
            /\ versions[v].prev = NULL
                 <=> versions[v].free_prev_after_cycle = No_need_to_free)
  /\ [][\A v \in DOMAIN versions :
          versions'[v].free_prev_after_cycle # versions[v].free_prev_after_cycle
          => \/ versions[v].free_prev_after_cycle = Uninit
             \/ /\ versions[v].free_prev_after_cycle \in 0 .. MaxCycle
                /\ versions[v].free_prev_after_cycle = created[v].epoch
                /\ versions'[v].free_prev_after_cycle = No_need_to_free]_vars

\* C20 happens: with the mutex free, the second version has had its
\* predecessor reclaimed (prev NULL, marker No_need_to_free) and the third
\* has the second as prev and a cycle count as marker.
C20_Witness ==
  /\ descr_mutex = NoThread
  /\ Len(versions) = 3
  /\ freed_versions = {1}
  /\ versions[2].prev = NULL
  /\ versions[2].free_prev_after_cycle = No_need_to_free
  /\ versions[3].prev = 2
  /\ versions[3].free_prev_after_cycle = 1

====
